---- MODULE Spec2Model ----
(***************************************************************************)
(* Model of the z21-gateway orchestration component (src/gateway.go).      *)
(*                                                                         *)
(* One Gateway value: the cancellation context, the device connection, the *)
(* admission semaphore `sem`, the single-slot `onlineStatus` channel, the  *)
(* atomic `isOnline`, the three long-running goroutines started by Start   *)
(* (heartbeatLoop, monitorOnlineStatus, z21EventsLoop), the goroutines     *)
(* spawned per NATS message (handleCmdMessage) and the caller of Stop.     *)
(*                                                                         *)
(* The z21 device library and the NATS client are external: a SendRcv is   *)
(* an outstanding call that the device may answer, that fails, or that its *)
(* context ends; a Publish or a Marshal succeeds or returns an error.      *)
(* Goroutines of handleCmdMessage are interchangeable, so they are kept as *)
(* a bag of per-goroutine records.                                         *)
(***************************************************************************)
EXTENDS Naturals, Sequences, FiniteSets, Bags, TLC

\* ------------------------------------------------------------------ constants

\* gateway.go: MaxConcurrentCommands = 4, the capacity of g.sem.
MaxConcurrentCommands == 4

\* gateway.go: make(chan bool, 1), the capacity of g.onlineStatus.
OnlineStatusCap == 1

\* ------------------------------------------------------------------ bounds

\* Number of NATS command messages delivered to the subscription callback.
MaxMsgs == 5

\* Number of NATS command messages when all units run together.
MaxMsgsAll == 1

\* Number of probes (the immediate one and the ticks) the heartbeat performs.
MaxProbes == 3

\* Number of probes when the heartbeat runs next to the command goroutines.
MaxProbesAll == 2

\* Number of NATS command messages delivered while probes and arming run.
MaxMsgsDev == 3

\* Number of events the device puts on the event stream.
MaxEvents == 3

\* Number of device events when the relay runs next to the other loops.
MaxEventsAll == 1

\* Number of receives from the closed event channel that are followed.
MaxNilEvents == 1

VARIABLES
    started,        \* Start has run: the loops exist and the subscription is active
    ctxDone,        \* g.ctx is cancelled (g.ctx.Done() is closed)
    zcClosed,       \* g.zc.Close() has been called
    stopPc,         \* position of the caller of Stop
    sem,            \* number of tokens held in the channel g.sem
    arrived,        \* NATS messages delivered to the callback so far
    workers,        \* bag of handleCmdMessage goroutines (one record each)
    lastPublish,    \* history: msg.Reply and subject of the latest reply Publish
    hbPc,           \* position of heartbeatLoop / doHeartbeatCheck
    status,         \* the StatusMsg of the probe in progress
    probeOutcome,   \* history: what SendRcv returned to the latest probe
    lastFail,       \* history: latest probe whose status was not published
    isOnline,       \* g.isOnline
    onlineStatus,   \* contents of the channel g.onlineStatus
    monPc,          \* position of monitorOnlineStatus
    evPc,           \* position of z21EventsLoop
    events,         \* contents of the channel g.zc.Events()
    emitted,        \* history: events the device has put on the channel
    evLog,          \* history: the publishEvent calls for device events, in order
    eventsClosed,   \* the device library has closed the channel g.zc.Events()
    nilPubs,        \* history: publishEvent calls for a receive from the closed channel
    results,        \* history: the reachable flag of every probe, in order
    pushed,         \* history: probes whose notification entered onlineStatus
    dropped,        \* history: probes whose notification hit a full channel
    received,       \* history: probes whose notification monitorOnlineStatus got
    edges,          \* history: probes that have passed the isOnline comparison
    lastArm,        \* history: value of `edges` when subscribeBroadcast last ran
    armReqs,        \* history: SendRcv calls made by subscribeBroadcast
    armErrs,        \* history: those that returned an error
    statusPubs,     \* history: calls of nc.Publish on the status subject
    pubAfterStop    \* history: some nc.Publish was called after Stop returned

vars == << started, ctxDone, zcClosed, stopPc, sem, arrived, workers, lastPublish,
           hbPc, status, probeOutcome, lastFail, isOnline, onlineStatus,
           monPc, evPc, events, emitted, evLog, eventsClosed, nilPubs,
           results, pushed, dropped, received, edges, lastArm, armReqs, armErrs,
           statusPubs, pubAfterStop >>

cmdVars == << sem, arrived, workers, lastPublish >>
hbVars == << hbPc, status, probeOutcome, lastFail, isOnline, results, edges, statusPubs >>
chanVars == << onlineStatus, pushed, dropped >>
monVars == << monPc, received, lastArm, armReqs, armErrs >>
evVars == << evPc, events, emitted, evLog, eventsClosed, nilPubs >>
lifeVars == << started, ctxDone, zcClosed, stopPc >>

\* ------------------------------------------------------------------ values

\* Error texts are sequences of words; the empty sequence is Go's "".
NoError == << >>

\* Errors a SendRcv under a context derived from g.ctx can return.
DeviceErrors == { <<"transport error">>, <<"context deadline exceeded">> }

CanceledError == <<"context canceled">>

\* The error json.Unmarshal returns for a payload that is not a CanDetector.
UnmarshalError == <<"unexpected end of JSON input">>

\* The type tags a CommandRequest carries ({"type": ..., "request": ...}).
RequestTypes == { "discover" }

\* Reply addresses of an inbound message: none, or the requester's inbox.
ReplyAddrs == { "", "_INBOX.a" }

\* fmt.Sprintf("z21.%s.reply", g.name), for the gateway named "main".
FallbackSubject == "z21.main.reply"

\* A handleCmdMessage goroutine that has just been spawned for a message.
\* `late` tells, while the goroutine is at its select, that g.ctx was
\* already cancelled when it got there; `type` is CmdReply.Type, the zero
\* value until something sets it; `sent` counts the goroutine's SendRcv
\* calls and `rtErr` is the err the latest one returned.
NewWorker(malformed, reqType, late) ==
    [ pc |-> "acquire", malformed |-> malformed, reqType |-> reqType,
      late |-> late, sent |-> 0, rtErr |-> NoError,
      type |-> "", ok |-> FALSE, error |-> NoError, data |-> FALSE,
      pubs |-> 0, result |-> "none" ]

\* handleError: the CmdReply for a payload that did not deserialize.
handleError(err) ==
    [ type |-> "", ok |-> FALSE, error |-> <<"invalid message:">> \o err,
      data |-> FALSE ]

\* Variant of handleRequestReply: the reply is built as if err were nil.
handleRequestReply_IgnoreErr(err) ==
    [ type |-> "", ok |-> TRUE, error |-> NoError, data |-> TRUE ]

\* handleRequest, after SendRcv returned (resp, err): the CmdReply.
handleRequestReply(err) ==
    IF err # NoError
    THEN [ type |-> "", ok |-> FALSE, error |-> err, data |-> FALSE ]
    ELSE [ type |-> "", ok |-> TRUE, error |-> NoError, data |-> TRUE ]

\* Variant of ReplySubject: the fallback subject is always used.
ReplySubject_AlwaysFallback(replyTo) == FallbackSubject

\* handleCmdMessage: msg.Reply if it is not empty, else the fallback subject.
ReplySubject(replyTo) == IF replyTo # "" THEN replyTo ELSE FallbackSubject

\* json.Marshal(reply) can only fail on the device's response value.
MarshalReplyCanFail(w) == w.data

WithReply(w, r, pc) ==
    [ w EXCEPT !.pc = pc, !.type = r.type, !.ok = r.ok, !.error = r.error,
               !.data = r.data ]

Replace(w, w2) == (workers (-) SetToBag({w})) (+) SetToBag({w2})

Remove(w) == workers (-) SetToBag({w})

WorkersAt(pcs) == { w \in BagToSet(workers) : w.pc \in pcs }

CountAt(pcs) ==
    BagCardinality([ w \in WorkersAt(pcs) |-> CopiesIn(w, workers) ])

\* Positions of handleCmdMessage between the send on g.sem and the deferred
\* receive from it.
HoldingPcs == { "doCmd", "sendrcv", "reply", "release" }

\* nc.Publish was called: the history flag for publishes after Stop returned.
NotePublish == pubAfterStop' = (pubAfterStop \/ stopPc = "returned")

\* ------------------------------------------------------------------ Init

Init ==
    /\ started = FALSE
    /\ ctxDone = FALSE
    /\ zcClosed = FALSE
    /\ stopPc = "idle"
    /\ sem = 0
    /\ arrived = 0
    /\ workers = EmptyBag
    /\ lastPublish = [ made |-> FALSE, replyTo |-> "", subject |-> "" ]
    /\ hbPc = "none"
    /\ status = [ reachable |-> FALSE, serial |-> "" ]
    /\ isOnline = FALSE
    /\ onlineStatus = << >>
    /\ monPc = "none"
    /\ evPc = "none"
    /\ events = << >>
    /\ emitted = 0
    /\ evLog = << >>
    /\ eventsClosed = FALSE
    /\ nilPubs = 0
    /\ probeOutcome = "none"
    /\ lastFail = 0
    /\ armReqs = 0
    /\ armErrs = 0
    /\ results = << >>
    /\ pushed = {}
    /\ dropped = {}
    /\ received = << >>
    /\ edges = 0
    /\ lastArm = 0
    /\ statusPubs = 0
    /\ pubAfterStop = FALSE

\* ------------------------------------------------------------------ Start

\* Start: the three loops are spawned (wg.Add(1) each) and the command
\* subject is subscribed.
Start ==
    /\ ~started
    /\ stopPc = "idle"
    /\ started' = TRUE
    /\ hbPc' = "sendrcv"
    /\ monPc' = "select"
    /\ evPc' = "select"
    /\ UNCHANGED << ctxDone, zcClosed, stopPc, status, probeOutcome, lastFail,
                    isOnline, results, edges, statusPubs, events, emitted,
                    evLog, eventsClosed, nilPubs, pubAfterStop >>
    /\ UNCHANGED << cmdVars, chanVars, received, lastArm, armReqs, armErrs >>

\* ------------------------------------------------------------------ commands

\* natsCommandsLoop's callback: go g.handleCmdMessage(m).
NatsMsg(limit) ==
    /\ started
    /\ arrived < limit
    /\ \E malformed \in BOOLEAN :
       \E reqType \in RequestTypes :
          workers' = workers (+) SetToBag({NewWorker(malformed, reqType, ctxDone)})
    /\ arrived' = arrived + 1
    /\ UNCHANGED << sem, lastPublish, pubAfterStop >>
    /\ UNCHANGED << lifeVars, hbVars, chanVars, monVars, evVars >>

\* Variant of HandleCmdAcquire: the goroutine goes on without a slot.
HandleCmdAcquire_NoSlot ==
    /\ \E w \in WorkersAt({"acquire"}) :
          workers' = Replace(w, [ w EXCEPT !.pc = "doCmd", !.late = FALSE ])
    /\ UNCHANGED << sem, arrived, lastPublish, pubAfterStop >>
    /\ UNCHANGED << lifeVars, hbVars, chanVars, monVars, evVars >>

\* Variant of HandleCmdAcquire: the send on g.sem never blocks.
HandleCmdAcquire_NoBound ==
    /\ \E w \in WorkersAt({"acquire"}) :
          /\ sem' = sem + 1
          /\ workers' = Replace(w, [ w EXCEPT !.pc = "doCmd", !.late = FALSE ])
    /\ UNCHANGED << arrived, lastPublish, pubAfterStop >>
    /\ UNCHANGED << lifeVars, hbVars, chanVars, monVars, evVars >>

\* handleCmdMessage, select case g.sem <- struct{}{}.
HandleCmdAcquire ==
    /\ \E w \in WorkersAt({"acquire"}) :
          /\ sem < MaxConcurrentCommands
          /\ sem' = sem + 1
          /\ workers' = Replace(w, [ w EXCEPT !.pc = "doCmd", !.late = FALSE ])
    /\ UNCHANGED << arrived, lastPublish, pubAfterStop >>
    /\ UNCHANGED << lifeVars, hbVars, chanVars, monVars, evVars >>

\* handleCmdMessage, select case <-g.ctx.Done(): return.
HandleCmdAbandon ==
    /\ ctxDone
    /\ \E w \in WorkersAt({"acquire"}) : workers' = Remove(w)
    /\ UNCHANGED << sem, arrived, lastPublish, pubAfterStop >>
    /\ UNCHANGED << lifeVars, hbVars, chanVars, monVars, evVars >>

\* Variant of DoCmdRequestInvalid: the Unmarshal error is ignored and the
\* request is forwarded.
DoCmdRequestInvalid_Forward ==
    /\ \E w \in WorkersAt({"doCmd"}) :
          /\ w.malformed
          /\ workers' = Replace(w, [ w EXCEPT !.pc = "sendrcv", !.sent = w.sent + 1 ])
    /\ UNCHANGED << sem, arrived, lastPublish, pubAfterStop >>
    /\ UNCHANGED << lifeVars, hbVars, chanVars, monVars, evVars >>

\* doCmdRequest: json.Unmarshal fails, reply is handleError(err).
DoCmdRequestInvalid ==
    /\ \E w \in WorkersAt({"doCmd"}) :
          /\ w.malformed
          /\ workers' = Replace(w, WithReply(w, handleError(UnmarshalError), "reply"))
    /\ UNCHANGED << sem, arrived, lastPublish, pubAfterStop >>
    /\ UNCHANGED << lifeVars, hbVars, chanVars, monVars, evVars >>

\* doCmdRequest: json.Unmarshal succeeds; handleRequest calls g.zc.SendRcv.
DoCmdRequestSend ==
    /\ \E w \in WorkersAt({"doCmd"}) :
          /\ ~w.malformed
          /\ workers' = Replace(w, [ w EXCEPT !.pc = "sendrcv", !.sent = w.sent + 1 ])
    /\ UNCHANGED << sem, arrived, lastPublish, pubAfterStop >>
    /\ UNCHANGED << lifeVars, hbVars, chanVars, monVars, evVars >>

\* handleRequest: SendRcv returns the device's response.
HandleRequestOk ==
    /\ \E w \in WorkersAt({"sendrcv"}) :
          workers' = Replace(w, [ WithReply(w, handleRequestReply(NoError), "reply")
                                    EXCEPT !.rtErr = NoError ])
    /\ UNCHANGED << sem, arrived, lastPublish, pubAfterStop >>
    /\ UNCHANGED << lifeVars, hbVars, chanVars, monVars, evVars >>

\* handleRequest: SendRcv returns an error (transport error, the 500 ms
\* timeout, or the cancellation of g.ctx).
HandleRequestErr ==
    /\ \E w \in WorkersAt({"sendrcv"}) :
       \E err \in DeviceErrors \cup (IF ctxDone THEN {CanceledError} ELSE {}) :
          workers' = Replace(w, [ WithReply(w, handleRequestReply(err), "reply")
                                    EXCEPT !.rtErr = err ])
    /\ UNCHANGED << sem, arrived, lastPublish, pubAfterStop >>
    /\ UNCHANGED << lifeVars, hbVars, chanVars, monVars, evVars >>

\* Variant of HandleCmdMarshalFail: the early return skips the release of
\* the slot (the receive from g.sem is not deferred).
HandleCmdMarshalFail_Leak ==
    /\ \E w \in WorkersAt({"reply"}) :
          /\ MarshalReplyCanFail(w)
          /\ workers' = Remove(w)
    /\ UNCHANGED << sem, arrived, lastPublish, pubAfterStop >>
    /\ UNCHANGED << lifeVars, hbVars, chanVars, monVars, evVars >>

\* handleCmdMessage: json.Marshal(reply) fails; return without publishing.
HandleCmdMarshalFail ==
    /\ \E w \in WorkersAt({"reply"}) :
          /\ MarshalReplyCanFail(w)
          /\ workers' = Replace(w, [ w EXCEPT !.pc = "release", !.result = "marshalfail" ])
    /\ UNCHANGED << sem, arrived, lastPublish, pubAfterStop >>
    /\ UNCHANGED << lifeVars, hbVars, chanVars, monVars, evVars >>

\* Variant of HandleCmdPublish: a failed Publish is tried again.
HandleCmdPublish_Retry ==
    /\ \E w \in WorkersAt({"reply"}) :
       \E res \in { "published", "pubfail" } :
       \E replyTo \in ReplyAddrs :
          /\ workers' = Replace(w, [ w EXCEPT
                                    !.pc = IF res = "pubfail" THEN "reply" ELSE "release",
                                    !.result = res, !.pubs = w.pubs + 1 ])
          /\ lastPublish' = [ made |-> TRUE, replyTo |-> replyTo,
                               subject |-> ReplySubject(replyTo) ]
    /\ NotePublish
    /\ UNCHANGED << sem, arrived >>
    /\ UNCHANGED << lifeVars, hbVars, chanVars, monVars, evVars >>

\* handleCmdMessage: json.Marshal succeeds and g.nc.Publish(subject, data)
\* is called; it delivers the reply or returns an error.
HandleCmdPublish ==
    /\ \E w \in WorkersAt({"reply"}) :
       \E res \in { "published", "pubfail" } :
       \E replyTo \in ReplyAddrs :
          /\ workers' = Replace(w, [ w EXCEPT !.pc = "release", !.result = res,
                                              !.pubs = w.pubs + 1 ])
          /\ lastPublish' = [ made |-> TRUE, replyTo |-> replyTo,
                               subject |-> ReplySubject(replyTo) ]
    /\ NotePublish
    /\ UNCHANGED << sem, arrived >>
    /\ UNCHANGED << lifeVars, hbVars, chanVars, monVars, evVars >>

\* handleCmdMessage: the deferred <-g.sem, then the goroutine ends.
HandleCmdRelease ==
    /\ \E w \in WorkersAt({"release"}) :
          /\ sem' = sem - 1
          /\ workers' = Remove(w)
    /\ UNCHANGED << arrived, lastPublish, pubAfterStop >>
    /\ UNCHANGED << lifeVars, hbVars, chanVars, monVars, evVars >>

\* ------------------------------------------------------------------ heartbeat

\* Serial numbers the device may report.
Serials == { 12345 }

\* What g.zc.SendRcv can return to a probe.
\* "serial": err == nil and the message is a *z21.SerialNumber;
\* "other": err == nil and the message has another type;
\* "timeout": err != nil, the 500 ms context expired (or g.ctx was cancelled);
\* "transport": err != nil, the transport failed.
ProbeOutcomes == { "serial", "other", "timeout", "transport" }

\* Variant of checkReachability: the type of the response is not looked at.
checkReachability_NoTypeCheck(outcome, sn) ==
    IF outcome \in { "serial", "other" }
    THEN [ reachable |-> TRUE, serial |-> ToString(sn) ]
    ELSE [ reachable |-> FALSE, serial |-> "" ]

\* checkReachability: the StatusMsg built from what SendRcv returned.
checkReachability(outcome, sn) ==
    IF outcome = "serial"
    THEN [ reachable |-> TRUE, serial |-> ToString(sn) ]
    ELSE [ reachable |-> FALSE, serial |-> "" ]

\* The probe in progress (probes are numbered from 1).
Probe == Len(results)

\* The reachable flag of probe i; before the first probe the gateway is
\* offline (the zero value of g.isOnline).
ResultOf(i) == IF i = 0 THEN FALSE ELSE results[i]

\* checkReachability: g.zc.SendRcv returns and the StatusMsg is built.
HbCheckReachability ==
    /\ hbPc = "sendrcv"
    /\ \E outcome \in ProbeOutcomes :
       \E sn \in Serials :
          /\ probeOutcome' = outcome
          /\ status' = checkReachability(outcome, sn)
          /\ results' = Append(results, status'.reachable)
    /\ hbPc' = "edge"
    /\ UNCHANGED << lastFail, isOnline, edges, statusPubs, pubAfterStop >>
    /\ UNCHANGED << lifeVars, cmdVars, chanVars, monVars, evVars >>

\* Variant of TrySend: on a full channel the pending value is replaced by
\* the new one (latest wins), so the pending one is lost.
TrySend_Overwrite(val) ==
    IF Len(onlineStatus) < OnlineStatusCap
    THEN /\ onlineStatus' = Append(onlineStatus, [ val |-> val, probe |-> Probe ])
         /\ pushed' = pushed \cup { Probe }
         /\ dropped' = dropped
    ELSE /\ onlineStatus' = << [ val |-> val, probe |-> Probe ] >>
         /\ pushed' = pushed \cup { Probe }
         /\ dropped' = dropped \cup { [ probe |-> onlineStatus[1].probe, behind |-> Probe ] }

\* Variant of TrySend: a plain send, which waits for room in the channel.
TrySend_Block(val) ==
    /\ Len(onlineStatus) < OnlineStatusCap
    /\ onlineStatus' = Append(onlineStatus, [ val |-> val, probe |-> Probe ])
    /\ pushed' = pushed \cup { Probe }
    /\ dropped' = dropped

\* The non-blocking send on g.onlineStatus: select with a default case.
TrySend(val) ==
    IF Len(onlineStatus) < OnlineStatusCap
    THEN /\ onlineStatus' = Append(onlineStatus, [ val |-> val, probe |-> Probe ])
         /\ pushed' = pushed \cup { Probe }
         /\ dropped' = dropped
    ELSE /\ onlineStatus' = onlineStatus
         /\ pushed' = pushed
         /\ dropped' = dropped \cup { [ probe |-> Probe, behind |-> onlineStatus[1].probe ] }

\* Variant of HbEdge: the new state is not stored in g.isOnline.
HbEdge_NoStore ==
    /\ hbPc = "edge"
    /\ IF status.reachable # isOnline
       THEN /\ isOnline' = isOnline
            /\ TrySend(status.reachable)
       ELSE UNCHANGED << isOnline, chanVars >>
    /\ edges' = edges + 1
    /\ hbPc' = "publish"
    /\ UNCHANGED << status, probeOutcome, lastFail, results, statusPubs, pubAfterStop >>
    /\ UNCHANGED << lifeVars, cmdVars, monVars, evVars >>

\* Variant of HbEdge: the notification is sent on every probe.
HbEdge_AlwaysSend ==
    /\ hbPc = "edge"
    /\ isOnline' = status.reachable
    /\ TrySend(status.reachable)
    /\ edges' = edges + 1
    /\ hbPc' = "publish"
    /\ UNCHANGED << status, probeOutcome, lastFail, results, statusPubs, pubAfterStop >>
    /\ UNCHANGED << lifeVars, cmdVars, monVars, evVars >>

\* doHeartbeatCheck: wasOnline := isOnline.Load(); on a difference
\* isOnline.Store and the non-blocking send.
HbEdge ==
    /\ hbPc = "edge"
    /\ IF status.reachable # isOnline
       THEN /\ isOnline' = status.reachable
            /\ TrySend(status.reachable)
       ELSE UNCHANGED << isOnline, chanVars >>
    /\ edges' = edges + 1
    /\ hbPc' = "publish"
    /\ UNCHANGED << status, probeOutcome, lastFail, results, statusPubs, pubAfterStop >>
    /\ UNCHANGED << lifeVars, cmdVars, monVars, evVars >>

\* json.Marshal of a StatusMsg (a bool and two strings) cannot fail.
MarshalStatusFails(st) == FALSE

\* Variant of HbPublish: the status is published only when it changed.
HbPublish_OnlyOnChange ==
    /\ hbPc = "publish"
    /\ IF ResultOf(Probe) = ResultOf(Probe - 1)
       THEN UNCHANGED << statusPubs, pubAfterStop >>
       ELSE /\ statusPubs' = statusPubs + 1
            /\ NotePublish
    /\ hbPc' = "select"
    /\ UNCHANGED << status, probeOutcome, lastFail, isOnline, results, edges >>
    /\ UNCHANGED << lifeVars, cmdVars, chanVars, monVars, evVars >>

\* Variant of HbPublish: a failed publish ends the heartbeat loop.
HbPublish_ExitOnFail ==
    /\ hbPc = "publish"
    /\ statusPubs' = statusPubs + 1
    /\ NotePublish
    /\ \E err \in BOOLEAN :
          /\ lastFail' = IF err THEN Probe ELSE lastFail
          /\ hbPc' = IF err THEN "done" ELSE "select"
    /\ UNCHANGED << status, probeOutcome, isOnline, results, edges >>
    /\ UNCHANGED << lifeVars, cmdVars, chanVars, monVars, evVars >>

\* doHeartbeatCheck: json.Marshal(status), then g.nc.Publish on the status
\* subject, which delivers or returns an error; after either failure the
\* check returns to the loop.
HbPublish ==
    /\ hbPc = "publish"
    /\ IF MarshalStatusFails(status)
       THEN /\ lastFail' = Probe
            /\ UNCHANGED << statusPubs, pubAfterStop >>
       ELSE /\ statusPubs' = statusPubs + 1
            /\ NotePublish
            /\ \E err \in BOOLEAN : lastFail' = IF err THEN Probe ELSE lastFail
    /\ hbPc' = "select"
    /\ UNCHANGED << status, probeOutcome, isOnline, results, edges >>
    /\ UNCHANGED << lifeVars, cmdVars, chanVars, monVars, evVars >>

\* heartbeatLoop: select case <-ticker.C: the next doHeartbeatCheck starts.
HbTick(limit) ==
    /\ hbPc = "select"
    /\ Probe < limit
    /\ hbPc' = "sendrcv"
    /\ UNCHANGED << status, probeOutcome, lastFail, isOnline, results, edges,
                    statusPubs, pubAfterStop >>
    /\ UNCHANGED << lifeVars, cmdVars, chanVars, monVars, evVars >>

\* heartbeatLoop: select case <-g.ctx.Done(): return (deferred wg.Done).
HbExit ==
    /\ hbPc = "select"
    /\ ctxDone
    /\ hbPc' = "done"
    /\ UNCHANGED << status, probeOutcome, lastFail, isOnline, results, edges,
                    statusPubs, pubAfterStop >>
    /\ UNCHANGED << lifeVars, cmdVars, chanVars, monVars, evVars >>

\* ------------------------------------------------------------------ monitor

\* Variant of MonRecv: subscribeBroadcast is called for offline too.
MonRecv_ArmAlways ==
    /\ monPc = "select"
    /\ onlineStatus # << >>
    /\ onlineStatus' = Tail(onlineStatus)
    /\ received' = Append(received, Head(onlineStatus).probe)
    /\ monPc' = "subscribe"
    /\ lastArm' = edges
    /\ armReqs' = armReqs + 1
    /\ UNCHANGED << armErrs, pushed, dropped, pubAfterStop >>
    /\ UNCHANGED << lifeVars, cmdVars, hbVars, evVars >>

\* monitorOnlineStatus: select case isOnline := <-g.onlineStatus. On true
\* subscribeBroadcast calls SendRcv under context.Background().
MonRecv ==
    /\ monPc = "select"
    /\ onlineStatus # << >>
    /\ onlineStatus' = Tail(onlineStatus)
    /\ received' = Append(received, Head(onlineStatus).probe)
    /\ IF Head(onlineStatus).val
       THEN /\ monPc' = "subscribe"
            /\ lastArm' = edges
            /\ armReqs' = armReqs + 1
       ELSE UNCHANGED << monPc, lastArm, armReqs >>
    /\ UNCHANGED << armErrs, pushed, dropped, pubAfterStop >>
    /\ UNCHANGED << lifeVars, cmdVars, hbVars, evVars >>

\* subscribeBroadcast: SendRcv returns (a response or a transport error;
\* the error is logged). Its context never ends, so nothing but the device
\* library ends the call.
SubscribeBroadcastReturn ==
    /\ monPc = "subscribe"
    /\ monPc' = "select"
    /\ \E err \in BOOLEAN : armErrs' = IF err THEN armErrs + 1 ELSE armErrs
    /\ UNCHANGED << received, lastArm, armReqs, pubAfterStop >>
    /\ UNCHANGED << lifeVars, cmdVars, hbVars, chanVars, evVars >>

\* monitorOnlineStatus: select case <-g.ctx.Done(): return.
MonExit ==
    /\ monPc = "select"
    /\ ctxDone
    /\ monPc' = "done"
    /\ UNCHANGED << received, lastArm, armReqs, armErrs, pubAfterStop >>
    /\ UNCHANGED << lifeVars, cmdVars, hbVars, chanVars, evVars >>

\* ------------------------------------------------------------------ events

\* The device library puts the next event on the channel g.zc.Events();
\* events are numbered in the order of the stream.
DeviceEvent(limit) ==
    /\ ~zcClosed
    /\ emitted < limit
    /\ emitted' = emitted + 1
    /\ events' = Append(events, emitted + 1)
    /\ UNCHANGED << evPc, evLog, eventsClosed, nilPubs, pubAfterStop >>
    /\ UNCHANGED << lifeVars, cmdVars, hbVars, chanVars, monVars >>

\* How publishEvent ends: json.Marshal failed (nc.Publish not called),
\* nc.Publish returned an error, or nc.Publish returned nil.
EventOutcomes == { "marshal failed", "publish failed", "published" }

\* Variant of Z21Event: the newest event of the channel is taken and the
\* older ones are discarded.
Z21Event_Latest ==
    /\ evPc = "select"
    /\ events # << >>
    /\ events' = << >>
    /\ \E outcome \in EventOutcomes :
          /\ evLog' = Append(evLog, [ ev |-> events[Len(events)], outcome |-> outcome ])
          /\ IF outcome = "marshal failed" THEN UNCHANGED pubAfterStop ELSE NotePublish
    /\ UNCHANGED << evPc, emitted, eventsClosed, nilPubs >>
    /\ UNCHANGED << lifeVars, cmdVars, hbVars, chanVars, monVars >>

\* z21EventsLoop: select case ev := <-events, then publishEvent(ev):
\* json.Marshal fails and nothing is published, or g.nc.Publish is called;
\* either way the loop goes back to its select.
Z21Event ==
    /\ evPc = "select"
    /\ events # << >>
    /\ events' = Tail(events)
    /\ \E outcome \in EventOutcomes :
          /\ evLog' = Append(evLog, [ ev |-> Head(events), outcome |-> outcome ])
          /\ IF outcome = "marshal failed" THEN UNCHANGED pubAfterStop ELSE NotePublish
    /\ UNCHANGED << evPc, emitted, eventsClosed, nilPubs >>
    /\ UNCHANGED << lifeVars, cmdVars, hbVars, chanVars, monVars >>

\* z21EventsLoop: select case ev := <-events on the closed and drained
\* channel: the receive yields nil at once (the ok flag is not read), and
\* publishEvent(nil) marshals it to "null" and calls g.nc.Publish.
Z21EventEnd ==
    /\ evPc = "select"
    /\ eventsClosed
    /\ events = << >>
    /\ nilPubs < MaxNilEvents
    /\ nilPubs' = nilPubs + 1
    /\ NotePublish
    /\ UNCHANGED << evPc, events, emitted, evLog, eventsClosed >>
    /\ UNCHANGED << lifeVars, cmdVars, hbVars, chanVars, monVars >>

\* z21EventsLoop: select case <-g.ctx.Done(): return.
EvExit ==
    /\ evPc = "select"
    /\ ctxDone
    /\ evPc' = "done"
    /\ UNCHANGED << events, emitted, evLog, eventsClosed, nilPubs, pubAfterStop >>
    /\ UNCHANGED << lifeVars, cmdVars, hbVars, chanVars, monVars >>

\* ------------------------------------------------------------------ Stop

\* Stop: g.cancel() (or the signal cancelling the parent context).
StopCancel ==
    /\ started
    /\ stopPc = "idle"
    /\ stopPc' = "cancelled"
    /\ ctxDone' = TRUE
    /\ UNCHANGED << started, zcClosed, pubAfterStop >>
    /\ UNCHANGED << cmdVars, hbVars, chanVars, monVars, evVars >>

\* Stop: g.zc.Close(). The device library ends the event stream by closing
\* the channel of Events(), or leaves the channel open.
StopClose ==
    /\ stopPc = "cancelled"
    /\ stopPc' = "closed"
    /\ zcClosed' = TRUE
    /\ eventsClosed' \in BOOLEAN
    /\ UNCHANGED << started, ctxDone, pubAfterStop >>
    /\ UNCHANGED << evPc, events, emitted, evLog, nilPubs >>
    /\ UNCHANGED << cmdVars, hbVars, chanVars, monVars >>

\* The WaitGroup counter: one per long-running goroutine that has not run
\* its deferred g.wg.Done().
wgCount ==
    Cardinality({ p \in { "hb", "mon", "ev" } :
                    \/ p = "hb" /\ hbPc # "done"
                    \/ p = "mon" /\ monPc # "done"
                    \/ p = "ev" /\ evPc # "done" })

\* Variant of StopWait: Stop goes on to the flush without the Wait.
StopWait_NoWait ==
    /\ stopPc = "closed"
    /\ stopPc' = "waited"
    /\ UNCHANGED << started, ctxDone, zcClosed, pubAfterStop >>
    /\ UNCHANGED << cmdVars, hbVars, chanVars, monVars, evVars >>

\* Stop: g.wg.Wait() returns.
StopWait ==
    /\ stopPc = "closed"
    /\ wgCount = 0
    /\ stopPc' = "waited"
    /\ UNCHANGED << started, ctxDone, zcClosed, pubAfterStop >>
    /\ UNCHANGED << cmdVars, hbVars, chanVars, monVars, evVars >>

\* Stop: g.nc.Flush(), then Stop returns.
StopFlush ==
    /\ stopPc = "waited"
    /\ stopPc' = "returned"
    /\ UNCHANGED << started, ctxDone, zcClosed, pubAfterStop >>
    /\ UNCHANGED << cmdVars, hbVars, chanVars, monVars, evVars >>

\* ------------------------------------------------------------------ specs

\* The command dispatcher with the start and the shutdown signal; the three
\* loops are not scheduled.
NextCmd ==
    \/ Start
    \/ NatsMsg(MaxMsgs)
    \/ HandleCmdAcquire
    \/ HandleCmdAbandon
    \/ DoCmdRequestInvalid
    \/ DoCmdRequestSend
    \/ HandleRequestOk
    \/ HandleRequestErr
    \/ HandleCmdMarshalFail
    \/ HandleCmdPublish
    \/ HandleCmdRelease
    \/ StopCancel
    \/ StopClose

SpecCmd == Init /\ [][NextCmd]_vars

\* The command dispatcher while no shutdown is signalled.
NextRun ==
    \/ Start
    \/ NatsMsg(MaxMsgs)
    \/ HandleCmdAcquire
    \/ DoCmdRequestInvalid
    \/ DoCmdRequestSend
    \/ HandleRequestOk
    \/ HandleRequestErr
    \/ HandleCmdMarshalFail
    \/ HandleCmdPublish
    \/ HandleCmdRelease

\* Every goroutine that can take a step eventually takes one, every device
\* round-trip ends (by a response, an error or the 500 ms timeout), every
\* Marshal and Publish returns, and the messages of the burst arrive.
FairnessRun ==
    /\ WF_vars(Start)
    /\ WF_vars(NatsMsg(MaxMsgs))
    /\ WF_vars(HandleCmdAcquire)
    /\ WF_vars(DoCmdRequestInvalid)
    /\ WF_vars(DoCmdRequestSend)
    /\ WF_vars(HandleRequestOk \/ HandleRequestErr)
    /\ WF_vars(HandleCmdMarshalFail \/ HandleCmdPublish)
    /\ WF_vars(HandleCmdRelease)

FairSpecRun == Init /\ [][NextRun]_vars /\ FairnessRun

\* The command goroutines next to the probes and the arming requests,
\* while no shutdown is signalled: every unit that calls g.zc.SendRcv.
NextDev ==
    \/ Start
    \/ NatsMsg(MaxMsgsDev)
    \/ HandleCmdAcquire
    \/ DoCmdRequestInvalid
    \/ DoCmdRequestSend
    \/ HandleRequestOk
    \/ HandleRequestErr
    \/ HandleCmdMarshalFail
    \/ HandleCmdPublish
    \/ HandleCmdRelease
    \/ HbCheckReachability
    \/ HbEdge
    \/ HbPublish
    \/ HbTick(MaxProbesAll)
    \/ MonRecv
    \/ SubscribeBroadcastReturn

SpecDev == Init /\ [][NextDev]_vars

\* The event relay with the device's event stream, the start and Stop's
\* cancellation and Close.
NextEv ==
    \/ Start
    \/ DeviceEvent(MaxEvents)
    \/ Z21Event
    \/ Z21EventEnd
    \/ EvExit
    \/ StopCancel
    \/ StopClose

SpecEv == Init /\ [][NextEv]_vars

\* The reachability monitor, the subscription arming, the event relay and
\* Stop; no command message arrives.
NextMon ==
    \/ Start
    \/ HbCheckReachability
    \/ HbEdge
    \/ HbPublish
    \/ HbTick(MaxProbes)
    \/ HbExit
    \/ MonRecv
    \/ SubscribeBroadcastReturn
    \/ MonExit
    \/ DeviceEvent(MaxEventsAll)
    \/ Z21Event
    \/ Z21EventEnd
    \/ EvExit
    \/ StopCancel
    \/ StopClose
    \/ StopWait
    \/ StopFlush

SpecMon == Init /\ [][NextMon]_vars

\* Every unit together: the loops, Stop and the command goroutines.
Next ==
    \/ Start
    \/ NatsMsg(MaxMsgsAll)
    \/ HandleCmdAcquire
    \/ HandleCmdAbandon
    \/ DoCmdRequestInvalid
    \/ DoCmdRequestSend
    \/ HandleRequestOk
    \/ HandleRequestErr
    \/ HandleCmdMarshalFail
    \/ HandleCmdPublish
    \/ HandleCmdRelease
    \/ HbCheckReachability
    \/ HbEdge
    \/ HbPublish
    \/ HbTick(MaxProbesAll)
    \/ HbExit
    \/ MonRecv
    \/ SubscribeBroadcastReturn
    \/ MonExit
    \/ DeviceEvent(MaxEventsAll)
    \/ Z21Event
    \/ Z21EventEnd
    \/ EvExit
    \/ StopCancel
    \/ StopClose
    \/ StopWait
    \/ StopFlush

Spec == Init /\ [][Next]_vars

\* ------------------------------------------------------------------ claims

AllWorkers == BagToSet(workers)

\* C1: the number of handleCmdMessage goroutines between the send on g.sem
\* and the deferred receive, and so the number of command SendRcv calls in
\* progress, never exceeds MaxConcurrentCommands.
C1_SlotsBounded ==
    /\ CountAt(HoldingPcs) <= MaxConcurrentCommands
    /\ CountAt({"sendrcv"}) <= MaxConcurrentCommands

\* C1 witness: four goroutines hold a slot, all in SendRcv, and a fifth
\* waits in the select.
C1_Witness ==
    /\ CountAt({"sendrcv"}) = MaxConcurrentCommands
    /\ CountAt({"acquire"}) >= 1

\* C2 as stated: a goroutine that acquired a slot has, when it reaches its
\* deferred release, published exactly one reply.
C2_ExactlyOneReplyPublished ==
    \A w \in WorkersAt({"release"}) : w.result = "published"

\* C2 amended: a goroutine that acquired a slot calls nc.Publish at most
\* once and not before its reply is built; when it reaches its deferred
\* release it has called it exactly once, except when json.Marshal of the
\* reply failed, which happens only for a success reply carrying the
\* device's response, and then it has not called it.
C2_AtMostOnePublishCall ==
    \A w \in AllWorkers :
        /\ w.pubs <= 1
        /\ w.pc \in { "acquire", "doCmd", "sendrcv", "reply" } => w.pubs = 0
        /\ w.pc = "release" =>
              /\ (w.pubs = 1) <=> (w.result # "marshalfail")
              /\ w.result = "marshalfail" => (w.ok /\ w.data)

\* C2 witness: goroutines of the malformed, the device-error and the success
\* path are all at their release with one Publish call each.
C2_Witness ==
    /\ \E w \in WorkersAt({"release"}) : w.malformed /\ w.pubs = 1
    /\ \E w \in WorkersAt({"release"}) : ~w.malformed /\ ~w.ok /\ w.pubs = 1
    /\ \E w \in WorkersAt({"release"}) : w.ok /\ w.pubs = 1

\* C3: a goroutine whose payload fails json.Unmarshal never calls SendRcv,
\* and its reply has ok = false and an error starting "invalid message:".
C3_MalformedNeverSent ==
    \A w \in AllWorkers :
        w.malformed =>
            /\ w.sent = 0
            /\ w.pc # "sendrcv"
            /\ w.pc \in { "reply", "release" } =>
                  /\ ~w.ok
                  /\ ~w.data
                  /\ Len(w.error) > 1
                  /\ w.error[1] = "invalid message:"

\* C3 witness: the error reply of a malformed message has been published
\* while another goroutine is in SendRcv.
C3_Witness ==
    /\ \E w \in WorkersAt({"release"}) : w.malformed /\ w.result = "published"
    /\ CountAt({"sendrcv"}) >= 1

\* Probes whose doHeartbeatCheck has returned.
ProbesCompleted == IF hbPc \in { "edge", "publish" } THEN Probe - 1 ELSE Probe

\* Probes whose notification hit a full channel.
DroppedProbes == { d.probe : d \in dropped }

\* C4: every completed probe has made exactly one Publish call on the
\* status subject.
C4_OneStatusPerProbe == statusPubs = ProbesCompleted

\* C4 witness: three probes are complete, one repeated the previous result,
\* one had its notification dropped, and three statuses were published.
C4_Witness ==
    /\ hbPc = "select"
    /\ Probe = 3
    /\ statusPubs = 3
    /\ DroppedProbes # {}
    /\ \E i \in 1..Probe : ResultOf(i) = ResultOf(i - 1)

\* C5: a notification is sent (pushed or dropped) only by a probe whose
\* reachable flag differs from the preceding probe's, at most once per
\* probe, and after the comparison g.isOnline equals the probe's flag.
C5_NotifyOnlyOnChange ==
    /\ \A i \in pushed \cup DroppedProbes :
          /\ i \in 1..Probe
          /\ ResultOf(i) # ResultOf(i - 1)
    /\ pushed \cap DroppedProbes = {}
    /\ hbPc \in { "publish", "select", "done" } => isOnline = ResultOf(Probe)

\* C5 witness: two consecutive reachable probes, only the first notified.
C5_Witness ==
    /\ hbPc = "select"
    /\ Probe >= 2
    /\ ResultOf(1) /\ ResultOf(2)
    /\ pushed \cup DroppedProbes = { 1 }

\* Probes past the comparison whose flag is false after a true one.
FallingEdges ==
    { i \in 2..edges : ResultOf(i - 1) /\ ~ResultOf(i) }

\* Number of times probe i's notification was received.
TimesReceived(i) == Cardinality({ k \in 1..Len(received) : received[k] = i })

\* C6 as stated: the false notification of a failing probe that follows a
\* successful one is never lost, whatever is still in the channel.
C6_OfflineNeverDropped ==
    \A i \in FallingEdges : i \notin DroppedProbes

\* C6 amended: the false notification of a failing probe that follows a
\* successful one is sent exactly once; it is either pushed, and then
\* received at most once, or dropped because an earlier pushed notification
\* was still in the channel, and then never received.
C6_OfflineAtMostOnce ==
    \A i \in FallingEdges :
        /\ (i \in pushed) # (i \in DroppedProbes)
        /\ TimesReceived(i) <= 1
        /\ i \notin pushed => TimesReceived(i) = 0
        /\ \A d \in dropped :
              d.probe = i => (d.behind < i /\ d.behind \in pushed)

\* C6 witness: a failing probe's false notification was dropped behind the
\* online notification that is still in the channel.
C6_Witness ==
    /\ \E i \in FallingEdges : i \in DroppedProbes
    /\ onlineStatus # << >>
    /\ ResultOf(onlineStatus[1].probe)

\* C7 as stated: two notifications received one after the other never carry
\* the same value.
C7_ReceivedAlternate ==
    \A k \in 1..(Len(received) - 1) :
        ResultOf(received[k]) # ResultOf(received[k + 1])

\* C7 amended: every received notification belongs to a distinct probe that
\* changed the reachable flag, in probe order; two received one after the
\* other carry the same value only when a probe between them had its
\* notification dropped.
C7_OncePerChange ==
    /\ \A k \in 1..Len(received) :
          /\ received[k] \in pushed
          /\ ResultOf(received[k]) # ResultOf(received[k] - 1)
    /\ \A k \in 1..(Len(received) - 1) :
          /\ received[k] < received[k + 1]
          /\ ResultOf(received[k]) = ResultOf(received[k + 1]) =>
                \E d \in DroppedProbes : received[k] < d /\ d < received[k + 1]

\* C7 witness: online was received twice in a row.
C7_Witness ==
    \E k \in 1..(Len(received) - 1) :
        ResultOf(received[k]) /\ ResultOf(received[k + 1])

\* The last probe that went from unreachable to reachable (0 if none).
RisingEdges == { i \in 1..edges : ResultOf(i) /\ ~ResultOf(i - 1) }

LastRisingEdge ==
    IF RisingEdges = {} THEN 0
    ELSE CHOOSE i \in RisingEdges : \A j \in RisingEdges : j <= i

\* Nothing is pending: the heartbeat waits for a tick, the channel is empty
\* and the monitor waits in its select; no shutdown.
Quiescent ==
    /\ ~ctxDone
    /\ hbPc = "select"
    /\ onlineStatus = << >>
    /\ monPc = "select"

\* C8: once the device is reachable and nothing is pending, the arming
\* request has been issued after the last transition to reachable (no later
\* probe changes the state while the device stays reachable, so nothing
\* would issue it later).
C8_RearmedAfterOnline ==
    (Quiescent /\ isOnline) => lastArm >= LastRisingEdge

\* Steps the gateway takes by itself: they need neither an answer of the
\* device nor a tick (a SendRcv under the 500 ms timeout returns anyway).
GatewayStep ==
    \/ HbCheckReachability
    \/ HbEdge
    \/ HbPublish
    \/ HbExit
    \/ MonRecv
    \/ MonExit
    \/ EvExit
    \/ StopClose
    \/ StopWait
    \/ StopFlush

\* C9: after cancellation, as long as Stop's Wait has not returned, some
\* unit can still take a step towards termination without the device
\* answering: no loop is blocked for good, so the loops terminate and the
\* Wait returns.
C9_ShutdownNeverStuck ==
    (ctxDone /\ stopPc \in { "cancelled", "closed" }) => ENABLED GatewayStep

\* C10: nc.Publish is not called after Stop has returned.
C10_NoPublishAfterStop == ~pubAfterStop

\* C11: a goroutine that got to its select when g.ctx was already cancelled
\* never takes the send on g.sem.
C11_LateNeverAcquires ==
    [][ \A w \in WorkersAt({"acquire"}) :
            w.late => workers' # Replace(w, [ w EXCEPT !.pc = "doCmd", !.late = FALSE ])
      ]_vars

\* C12: the tokens in g.sem are exactly the goroutines between their send
\* on g.sem and their deferred receive, on every path; so with no goroutine
\* in between, all MaxConcurrentCommands slots are free.
C12_SlotsMatchHolders ==
    /\ sem = CountAt(HoldingPcs)
    /\ CountAt(HoldingPcs) = 0 => sem = 0

\* C12 witness: one goroutine has returned and released, another is at its
\* deferred release after json.Marshal failed, and holds the only token.
C12_Witness ==
    /\ ~ctxDone
    /\ arrived = 2
    /\ BagCardinality(workers) = 1
    /\ \E w \in WorkersAt({"release"}) : w.result = "marshalfail"
    /\ sem = 1

\* C13 as stated: every goroutine of the burst has published a reply when
\* it reaches its deferred release.
C13_AllPublishReply ==
    \A w \in WorkersAt({"release"}) : w.pubs = 1

\* C13 amended: a goroutine takes a slot only while fewer than
\* MaxConcurrentCommands are held (the fifth after a release); each one
\* reaches its release having called nc.Publish once, or not at all when
\* json.Marshal of its reply failed; and eventually all of the burst have
\* returned.
C13_FifthWaitsAllFinish ==
    /\ [][ CountAt(HoldingPcs)' > CountAt(HoldingPcs)
             => CountAt(HoldingPcs) < MaxConcurrentCommands ]_vars
    /\ [](\A w \in WorkersAt({"release"}) : w.pubs = 1 \/ w.result = "marshalfail")
    /\ <>[](arrived = MaxMsgs /\ workers = EmptyBag)

\* C13 witness: all messages of the burst have arrived, four goroutines are
\* at their release after publishing and the last one still waits for a slot.
C13_Witness ==
    /\ arrived = MaxMsgs
    /\ CountAt({"release"}) = MaxConcurrentCommands
    /\ \A w \in WorkersAt({"release"}) : w.pubs = 1
    /\ CountAt({"acquire"}) = 1

C15_ReplyTypeMatches ==
    \A w \in WorkersAt({"release"}) : w.pubs = 1 => w.type = w.reqType

\* Calls of g.zc.SendRcv that have not returned: the command goroutines in
\* handleRequest, the probe in checkReachability and subscribeBroadcast.
InFlight ==
    CountAt({"sendrcv"})
      + (IF hbPc = "sendrcv" THEN 1 ELSE 0)
      + (IF monPc = "subscribe" THEN 1 ELSE 0)

C17_RelayedOnceInOrder ==
    /\ \A i \in 1..Len(evLog) : evLog[i].ev = i
    /\ events = [ i \in 1..(emitted - Len(evLog)) |-> Len(evLog) + i ]
    /\ evPc = "done" => ctxDone

\* C17 witness: the first event failed to serialize, the second failed to
\* publish and the third was published.
C17_Witness ==
    /\ Len(evLog) = 3
    /\ evLog[1].outcome = "marshal failed"
    /\ evLog[2].outcome = "publish failed"
    /\ evLog[3].outcome = "published"

\* C18: the probe's status is reachable exactly when SendRcv returned a
\* SerialNumber without error; then the serial is not empty, and otherwise
\* it is empty.
C18_ReachableOnlyOnIdentity ==
    Probe > 0 =>
        /\ status.reachable <=> probeOutcome = "serial"
        /\ status.reachable => status.serial # ""
        /\ ~status.reachable => status.serial = ""

\* C18 witness: after a reachable probe, a probe got a response of another
\* type without error and is unreachable with an empty serial.
C18_Witness ==
    /\ hbPc = "edge"
    /\ Probe >= 2
    /\ ResultOf(1)
    /\ probeOutcome = "other"
    /\ ~status.reachable

\* C19: the heartbeat loop ends only on cancellation; a probe whose status
\* was not published has passed the comparison with g.isOnline, has sent
\* (or dropped on a full channel) its notification if it was a change, has
\* left g.isOnline equal to its result, and the next tick starts a probe.
C19_FailedPublishKeepsLoop ==
    /\ hbPc = "done" => ctxDone
    /\ lastFail > 0 =>
          /\ edges >= lastFail
          /\ ResultOf(lastFail) # ResultOf(lastFail - 1)
                => lastFail \in pushed \cup DroppedProbes
          /\ (lastFail = Probe /\ hbPc = "select") =>
                /\ isOnline = ResultOf(Probe)
                /\ Probe < MaxProbes => ENABLED HbTick(MaxProbes)

\* C19 witness: the status of the first probe, which found the device
\* reachable and sent its notification, failed to publish, and a later
\* probe has run.
C19_Witness ==
    /\ lastFail = 1
    /\ ResultOf(1)
    /\ 1 \in pushed
    /\ Probe >= 2
    /\ hbPc = "edge"

\* Notifications with value true that monitorOnlineStatus has received.
OnlineReceived ==
    Cardinality({ i \in 1..Len(received) : ResultOf(received[i]) })

\* C20: subscribeBroadcast has called SendRcv once per online notification
\* received and never for an offline one, errors included, and the unit
\* leaves its loop only on cancellation.
C20_OneArmPerOnline ==
    /\ armReqs = OnlineReceived
    /\ armErrs <= armReqs
    /\ monPc = "done" => ctxDone

\* C20 witness: online, offline and online were received; two arming
\* requests were made, one of which returned an error.
C20_Witness ==
    /\ Len(received) = 3
    /\ armReqs = 2
    /\ armErrs = 1
    /\ monPc = "select"

\* C21: g.onlineStatus never holds more than one notification; a probe that
\* found the channel full left the pending notification in place and was
\* not sent; and whatever the channel holds, the probe at its comparison
\* and the probe at its publish can take their step.
C21_MonitorNeverBlocks ==
    /\ Len(onlineStatus) <= OnlineStatusCap
    /\ \A d \in dropped : d.probe \notin pushed /\ d.behind \in pushed
    /\ hbPc = "edge" => ENABLED HbEdge
    /\ hbPc = "publish" => ENABLED HbPublish

\* C21 witness: monitorOnlineStatus has received nothing, the channel is
\* full, a later change was dropped, and all probes have been completed
\* and published.
C21_Witness ==
    /\ received = << >>
    /\ Len(onlineStatus) = OnlineStatusCap
    /\ dropped # {}
    /\ hbPc = "select"
    /\ Probe = MaxProbes
    /\ statusPubs = MaxProbes

\* C22: Stop has cancelled before it closes the device connection, has
\* closed it before the Wait returns, and the Wait has returned, with the
\* three loops ended, before the flush.
C22_StopOrder ==
    /\ stopPc # "idle" => ctxDone
    /\ zcClosed => stopPc \in { "closed", "waited", "returned" }
    /\ stopPc \in { "closed", "waited", "returned" } => zcClosed
    /\ stopPc \in { "waited", "returned" } =>
          hbPc = "done" /\ monPc = "done" /\ evPc = "done"

\* C22 witness: Stop has returned after the loops ran probes, an arming
\* request and an event.
C22_Witness ==
    /\ stopPc = "returned"
    /\ Probe >= 2
    /\ armReqs >= 1
    /\ Len(evLog) >= 1

\* C24: a goroutine whose payload deserialized has called SendRcv once when
\* its reply is built; the reply has ok=true, the response as data and no
\* error exactly when SendRcv returned no error, and otherwise ok=false, the
\* text of the returned error and no data.
C24_ReplyMirrorsRoundTrip ==
    \A w \in WorkersAt({ "reply", "release" }) :
        ~w.malformed =>
            /\ w.sent = 1
            /\ w.ok <=> w.rtErr = NoError
            /\ w.ok => w.data /\ w.error = NoError
            /\ ~w.ok => ~w.data /\ w.error # NoError /\ w.error = w.rtErr

\* C24 witness: of two well-formed commands, one has its ok reply with the
\* response and the other its error reply after the timeout.
C24_Witness ==
    /\ \E w \in WorkersAt({ "reply" }) :
          ~w.malformed /\ w.ok /\ w.data /\ w.sent = 1
    /\ \E w \in WorkersAt({ "release" }) :
          /\ ~w.malformed /\ ~w.ok /\ w.sent = 1 /\ w.pubs = 1
          /\ w.rtErr = <<"context deadline exceeded">>

\* C23: no publishEvent call, and so no nc.Publish, is made for a receive
\* from the closed event channel.
C23_NoPublishAtStreamEnd == nilPubs = 0

====
